---- MODULE Spec2Model ----
(***************************************************************************)
(* Model of src/rpc/rawtransaction_util.cpp: peg-in input construction     *)
(* (GetPeginTxnOutputIndex, CreatePegInInput) and ConstructTransaction.    *)
(***************************************************************************)
EXTENDS Integers, Sequences, FiniteSets, TLC

\* ------------------------------------------------------------------ bounds
MaxTip == 2       \* the chain tip advances at most this many times
MaxOut == 2       \* outputs of a parent-chain transaction
MaxVin == 1       \* inputs of a caller-prepared transaction; input_idx <= MaxVin
MaxInputs == 2    \* entries of ConstructTransaction's "inputs" array
MaxOutputs == 2   \* entries of ConstructTransaction's "outputs"
UIntBits == 16    \* width the model gives uint32_t (TLC integers are 32-bit)
MaxRecords == 2   \* entries of the prevtxs array of ParsePrevouts

\* ------------------------------------------------------------------ scripts
\* A CScript is identified by what it commits to.  kind "empty" is CScript().
EmptyScript == [kind |-> "empty", fed |-> 0, claim |-> 0]
OtherScript == [kind |-> "other", fed |-> 0, claim |-> 0]

\* Claim scripts are identified by a number; std::set<CScript> iterates them in
\* ascending order.
ClaimIds == {1, 2, 3}

\* CScript::IsWitnessProgram(version, program): claim script 3 is a version-1
\* witness program, the others version-0 programs.
WitnessVersion(claim) == IF claim = 3 THEN 1 ELSE 0

\* One federation configuration, a (fedpegscript-as-scriptPubKey, fedpegscript)
\* pair: first_p2sh is scripts.first.IsPayToScriptHash(), second the script.
Fed(e) == [first_p2sh |-> (e % 2 = 1), second |-> e]

\* GetValidFedpegScripts(tip, params, nextblock_validation): the configuration
\* of the epoch of the next block first, then the previous epoch's.
GetValidFedpegScripts(t) == IF t = 0 THEN <<Fed(0)>> ELSE <<Fed(t), Fed(t - 1)>>

\* lines 31-34: the parent-chain script that pays to (fedpegscript, claim).
MainchainScript(scripts, witnessProgram) ==
    IF scripts.first_p2sh
    THEN [kind |-> "sh", fed |-> scripts.second, claim |-> witnessProgram]
    ELSE [kind |-> "wsh", fed |-> scripts.second, claim |-> witnessProgram]

\* lines 35-39: the lowest nOut with txn.vout[nOut].scriptPubKey == script, or
\* vout.size() (outputs are numbered from 0, sequences from 1).
RECURSIVE ScanOutputs(_, _, _)
ScanOutputs(vout, script, nOut) ==
    IF nOut >= Len(vout) THEN Len(vout)
    ELSE IF vout[nOut + 1].scriptPubKey = script THEN nOut
    ELSE ScanOutputs(vout, script, nOut + 1)

\* lines 30-41: configurations in list order, first match returns.
RECURSIVE FedLoop(_, _, _, _)
FedLoop(txn, witnessProgram, fedpegscripts, k) ==
    IF k > Len(fedpegscripts) THEN Len(txn.vout)
    ELSE LET nOut == ScanOutputs(txn.vout,
                         MainchainScript(fedpegscripts[k], witnessProgram), 0)
         IN  IF nOut # Len(txn.vout) THEN nOut
             ELSE FedLoop(txn, witnessProgram, fedpegscripts, k + 1)

\* A wrong matcher: outputs in the outer loop, configurations in the inner one
\* (the lowest output index that matches any configuration).
GetPeginTxnOutputIndexByOutput(txn, witnessProgram, fedpegscripts) ==
    LET hits == {n \in 0..(Len(txn.vout) - 1) :
                   \E k \in 1..Len(fedpegscripts) :
                     txn.vout[n + 1].scriptPubKey =
                        MainchainScript(fedpegscripts[k], witnessProgram)}
    IN  IF hits = {} THEN Len(txn.vout)
        ELSE CHOOSE n \in hits : \A m \in hits : n <= m

GetPeginTxnOutputIndex(txn, witnessProgram, fedpegscripts) ==
    FedLoop(txn, witnessProgram, fedpegscripts, 1)


\* ------------------------------------------------------------- parent chain
\* A parent-chain output: its script and its amount, "ok" (explicit, in the
\* money range), "big" (explicit, outside the money range) or "blinded".
TxOut(script, value) == [scriptPubKey |-> script, nValue |-> value]

\* GetHash(): a transaction is identified by its content.  The null uint256 of
\* a default COutPoint is <<>>.
Hash(tx) == <<tx>>
NullHash == <<>>

\* A serialized buffer: the object it encodes, whether the buffer ends before
\* the object does, and the bytes that follow the object.
Buf(obj) == [obj |-> obj, cut |-> FALSE, extra |-> 0]
Truncated(obj) == [obj |-> obj, cut |-> TRUE, extra |-> 0]
Trailing(obj) == [obj |-> obj, cut |-> FALSE, extra |-> 1]

\* CMerkleBlock: the header (its Merkle root, whether it passes the parent
\* chain's proof-of-work / signed-block check, whether it is buried deep enough)
\* and the partial Merkle tree (the root ExtractMatches computes, the matched
\* transaction hashes).
MerkleBlock(root, vMatch, work, mature) ==
    [header |-> [hashMerkleRoot |-> 1, work |-> work, mature |-> mature],
     txn |-> [root |-> root, vMatch |-> vMatch]]

\* GetAmountFromParentChainPegin: the amount of output nOut when it is explicit.
GetAmountFromParentChainPegin(txBTC, nOut) ==
    [ok |-> txBTC.vout[nOut + 1].nValue # "blinded",
     value |-> txBTC.vout[nOut + 1].nValue]

\* CreatePeginWitness: the stack of the peg-in witness.
CreatePeginWitness(value, witness_script, txBTC, merkleBlock) ==
    [value |-> value, asset |-> "pegged_asset", genesis |-> "parent_genesis",
     claim_script |-> witness_script, tx |-> txBTC, proof |-> merkleBlock]

\* IsValidPeginWitness(witness, fedpegscripts, prevout, err, check_depth): the
\* error message, "" when the witness is valid.
IsValidPeginWitness(w, fedpegscripts, prevout, check_depth) ==
    IF w.value # "ok" THEN "Value was not in valid value range."
    ELSE IF WitnessVersion(w.claim_script) # 0
         THEN "Could not get witness program."
    ELSE IF \/ w.proof.txn.root # w.proof.header.hashMerkleRoot
            \/ w.proof.txn.vMatch # <<Hash(w.tx)>>
         THEN "Could not extract block and tx from merkleblock."
    ELSE IF prevout.hash # Hash(w.tx) \/ prevout.n >= Len(w.tx.vout)
         THEN "Provided outpoint does not match the peg-in transaction."
    ELSE IF \/ w.tx.vout[prevout.n + 1].nValue # w.value
            \/ \A k \in 1..Len(fedpegscripts) :
                 w.tx.vout[prevout.n + 1].scriptPubKey #
                    MainchainScript(fedpegscripts[k], w.claim_script)
         THEN "Peg-in tx is invalid."
    ELSE IF check_depth /\ ~w.proof.header.mature
         THEN "Needs more confirmations."
    ELSE ""

\* ------------------------------------------------------------- transactions
SEQUENCE_FINAL == 2 ^ UIntBits - 1
MAX_BIP125_RBF_SEQUENCE == SEQUENCE_FINAL - 2

COutPoint(hash, n) == [hash |-> hash, n |-> n]
CTxIn(prevout, scriptSig, nSequence) ==
    [prevout |-> prevout, scriptSig |-> scriptSig, nSequence |-> nSequence,
     m_is_pegin |-> FALSE]
\* CTxIn(): what vin.resize() appends.
DefaultTxIn == CTxIn(COutPoint(NullHash, SEQUENCE_FINAL), EmptyScript, SEQUENCE_FINAL)

\* CTxInWitness: the script witness stack (empty or not) and the peg-in
\* witness (<<>> when empty).
NullTxInWitness == [stack |-> "empty", pegin |-> <<>>]
IsNull(txinwit) == txinwit.stack = "empty" /\ txinwit.pegin = <<>>

EmptyTx == [vin |-> <<>>, vtxinwit |-> <<>>, vout |-> <<>>, nLockTime |-> 0]

\* std::vector::resize(n) when the vector is shorter than n.
Resize(v, n, fill) == v \o [i \in 1..(n - Len(v)) |-> fill]

\* ---------------------------------------------------------- CreatePegInInput
ErrReuse == "Attempting to add a peg-in to an input that already has a scriptSig or witness"
ErrTxMalformed == "The included bitcoinTx is malformed. Are you sure that is the whole string?"
ErrProofMalformed == "The included txoutproof is malformed. Are you sure that is the whole string?"
ErrInvalidProof == "Invalid tx out proof"
ErrNotOnlyTx == "The txoutproof must contain bitcoinTx and only bitcoinTx"
ErrClaimMismatch == "Given claim_script does not match the given Bitcoin transaction."
ErrNoOutput == "Failed to find output in bitcoinTx to the mainchain_address from getpeginaddress"
ErrInternal == "Internal bug detected: witness_script != CScript()"
ErrNotV0 == "Given or recovered script is not a v0 witness program."
ErrNotExplicit == "Amounts to pegin must be explicit and asset must be parent_pegged_asset"
ErrConstructed == "Constructed peg-in witness is invalid"

\* A wrong guard: the witness slot is not looked at.
InputInUseScriptSigOnly(mtx, input_idx) ==
    Len(mtx.vin) > input_idx /\ mtx.vin[input_idx + 1].scriptSig # EmptyScript

\* lines 60-70 without the check that the stream is empty after decoding.
DecodeTxOutProofLax(txOutProofData) ==
    IF txOutProofData.cut THEN ErrProofMalformed ELSE ""

\* lines 60-70: the Merkle block is read from the stream, which must then be
\* empty.  The error thrown, "" when there is none.
DecodeTxOutProof(txOutProofData) ==
    IF txOutProofData.cut THEN ErrProofMalformed
    ELSE IF txOutProofData.extra # 0 THEN ErrInvalidProof
    ELSE ""

\* line 48: the input-reuse guard.
InputInUse(mtx, input_idx) ==
    \/ Len(mtx.vin) > input_idx /\ mtx.vin[input_idx + 1].scriptSig # EmptyScript
    \/ Len(mtx.vtxinwit) > input_idx /\ ~IsNull(mtx.vtxinwit[input_idx + 1])

\* A wrong loop: only the first claim script of the set is tried.
ClaimLoopFirstOnly(txBTC, claim_scripts, fedpegscripts) ==
    IF claim_scripts = {}
    THEN [nOut |-> Len(txBTC.vout), witness_script |-> 0]
    ELSE LET script == CHOOSE c \in claim_scripts : \A d \in claim_scripts : c <= d
             nOut == GetPeginTxnOutputIndex(txBTC, script, fedpegscripts)
         IN  [nOut |-> nOut,
              witness_script |-> IF nOut # Len(txBTC.vout) THEN script ELSE 0]

\* lines 80-89: the claim scripts in the set's order; nOut is what the last
\* call of GetPeginTxnOutputIndex returned, witness_script 0 is CScript().
RECURSIVE ClaimLoop(_, _, _)
ClaimLoop(txBTC, claim_scripts, fedpegscripts) ==
    IF claim_scripts = {}
    THEN [nOut |-> Len(txBTC.vout), witness_script |-> 0]
    ELSE LET script == CHOOSE c \in claim_scripts : \A d \in claim_scripts : c <= d
             nOut == GetPeginTxnOutputIndex(txBTC, script, fedpegscripts)
         IN  IF nOut # Len(txBTC.vout)
             THEN [nOut |-> nOut, witness_script |-> script]
             ELSE ClaimLoop(txBTC, claim_scripts \ {script}, fedpegscripts)

PrepFail(err) ==
    [err |-> err, txBTC |-> [vout |-> <<>>], merkleBlock |-> MerkleBlock(0, <<>>, FALSE, FALSE),
     nOut |-> 0, witness_script |-> 0, value |-> "ok"]

\* lines 48-108 of CreatePegInInputInner: every check made before the
\* transaction is touched.  fedpegscripts is what line 82 read.
PegInPrepare(mtx, input_idx, claim_scripts, txData, txOutProofData, fedpegscripts) ==
    IF InputInUse(mtx, input_idx) THEN PrepFail(ErrReuse)
    ELSE IF txData.cut THEN PrepFail(ErrTxMalformed)
    ELSE IF DecodeTxOutProof(txOutProofData) # ""
         THEN PrepFail(DecodeTxOutProof(txOutProofData))
    ELSE LET txBTC == txData.obj
             merkleBlock == txOutProofData.obj
             txHashes == merkleBlock.txn.vMatch
             m == ClaimLoop(txBTC, claim_scripts, fedpegscripts)
             amount == GetAmountFromParentChainPegin(txBTC, m.nOut)
         IN  IF merkleBlock.txn.root # merkleBlock.header.hashMerkleRoot
             THEN PrepFail(ErrInvalidProof)
             ELSE IF Len(txHashes) # 1 \/ txHashes[1] # Hash(txBTC)
             THEN PrepFail(ErrNotOnlyTx)
             ELSE IF m.nOut = Len(txBTC.vout)
             THEN PrepFail(IF Cardinality(claim_scripts) = 1
                           THEN ErrClaimMismatch ELSE ErrNoOutput)
             ELSE IF m.witness_script = 0 THEN PrepFail(ErrInternal)
             ELSE IF WitnessVersion(m.witness_script) # 0
             THEN [PrepFail(ErrNotV0) EXCEPT !.nOut = m.nOut,
                                             !.witness_script = m.witness_script]
             ELSE IF ~amount.ok
             THEN [PrepFail(ErrNotExplicit) EXCEPT !.nOut = m.nOut,
                                                   !.witness_script = m.witness_script]
             ELSE [err |-> "", txBTC |-> txBTC, merkleBlock |-> merkleBlock,
                   nOut |-> m.nOut, witness_script |-> m.witness_script,
                   value |-> amount.value]

\* lines 110-134 with the self-verification of lines 122-124 left out.
PegInInstallUnverified(mtx, input_idx, prep, fedpegscripts) ==
    LET vin1 == Resize(mtx.vin, input_idx + 1, DefaultTxIn)
        txin == CTxIn(COutPoint(Hash(prep.txBTC), prep.nOut), EmptyScript, SEQUENCE_FINAL)
        pegin_witness == CreatePeginWitness(prep.value, prep.witness_script,
                                            prep.txBTC, prep.merkleBlock)
        wit1 == Resize(mtx.vtxinwit, input_idx + 1, NullTxInWitness)
    IN  [err |-> "",
         mtx |-> [mtx EXCEPT
                   !.vin = [vin1 EXCEPT ![input_idx + 1] = [txin EXCEPT !.m_is_pegin = TRUE]],
                   !.vtxinwit = [wit1 EXCEPT ![input_idx + 1] =
                                   [stack |-> "empty", pegin |-> <<pegin_witness>>]]]]

\* lines 110-134 with the input written only once the witness is verified.
PegInInstallAtomic(mtx, input_idx, prep, fedpegscripts) ==
    LET r == PegInInstallUnverified(mtx, input_idx, prep, fedpegscripts)
        txin == r.mtx.vin[input_idx + 1]
        err == IsValidPeginWitness(r.mtx.vtxinwit[input_idx + 1].pegin[1],
                                   fedpegscripts, txin.prevout, FALSE)
    IN  IF err # "" THEN [err |-> ErrConstructed, mtx |-> mtx] ELSE r

\* lines 110-134 of CreatePegInInputInner: the input is replaced, the witness
\* built and verified against fedpegscripts, and then attached.
PegInInstall(mtx, input_idx, prep, fedpegscripts) ==
    LET vin1 == Resize(mtx.vin, input_idx + 1, DefaultTxIn)
        txin == CTxIn(COutPoint(Hash(prep.txBTC), prep.nOut), EmptyScript, SEQUENCE_FINAL)
        vin2 == [vin1 EXCEPT ![input_idx + 1] = txin]
        pegin_witness == CreatePeginWitness(prep.value, prep.witness_script,
                                            prep.txBTC, prep.merkleBlock)
        err == IsValidPeginWitness(pegin_witness, fedpegscripts, txin.prevout, FALSE)
        wit1 == Resize(mtx.vtxinwit, input_idx + 1, NullTxInWitness)
    IN  IF err # ""
        THEN [err |-> ErrConstructed, mtx |-> [mtx EXCEPT !.vin = vin2]]
        ELSE [err |-> "",
              mtx |-> [mtx EXCEPT
                        !.vin = [vin2 EXCEPT ![input_idx + 1].m_is_pegin = TRUE],
                        !.vtxinwit = [wit1 EXCEPT ![input_idx + 1] =
                                        [stack |-> "empty", pegin |-> <<pegin_witness>>]]]]

\* CreatePegInInput (lines 137-144) run without interruption at one chain tip.
CreatePegInInput(mtx, input_idx, claim_scripts, txData, txOutProofData, t) ==
    LET fedpegscripts == GetValidFedpegScripts(t)
        prep == PegInPrepare(mtx, input_idx, claim_scripts, txData,
                             txOutProofData, fedpegscripts)
    IN  IF prep.err # "" THEN [err |-> prep.err, mtx |-> mtx]
        ELSE PegInInstall(mtx, input_idx, prep, fedpegscripts)


\* -------------------------------------------------------------------- state
VARIABLES
    tip,     \* ::ChainActive().Tip(): the epoch the next block belongs to
    mtx,     \* the CMutableTransaction CreatePegInInput is called on
    call,    \* the CreatePegInInput call in progress (its locals)
    last,    \* the last CreatePegInInput call that returned or threw
    found,   \* the last GetPeginTxnOutputIndex call and what it returned
    ct,      \* the ConstructTransaction call: its arguments, locals and result
    vt,      \* the ValidateTransactionPeginInputs call: its locals and result
    sg,      \* the SignTransaction call: its arguments, locals and result
    pp       \* the ParsePrevouts call: the coin map, the key provider, the records

vars == <<tip, mtx, call, last, found, ct, vt, sg, pp>>

SeqsUpTo(S, n) == UNION {[1..k -> S] : k \in 0..n}

\* ------------------------------------------------------- what callers pass
FundingTx == [vout |-> <<TxOut(OtherScript, "ok")>>]
BlankTxIn == CTxIn(COutPoint(Hash(FundingTx), 0), EmptyScript, SEQUENCE_FINAL)
SignedTxIn == CTxIn(COutPoint(Hash(FundingTx), 0), OtherScript, SEQUENCE_FINAL)
SignedTxInWitness == [stack |-> "set", pegin |-> <<>>]

\* Transactions a caller may hand to CreatePegInInput: up to MaxVin inputs,
\* signed or not, and at most one witness slot per input, null or not.
PreparedTxs ==
    {[EmptyTx EXCEPT !.vin = vin, !.vtxinwit = wit] :
        <<vin, wit>> \in {p \in SeqsUpTo({BlankTxIn, SignedTxIn}, MaxVin)
                                \X SeqsUpTo({NullTxInWitness, SignedTxInWitness}, MaxVin) :
                            Len(p[2]) <= Len(p[1])}}

\* Parent-chain outputs paying to federation f for claim script c.
PegOut(f, c, value) == TxOut(MainchainScript(Fed(f), c), value)

GoodTx == [vout |-> <<PegOut(0, 1, "ok")>>]
BigTx == [vout |-> <<TxOut(OtherScript, "ok"), PegOut(0, 1, "big")>>]
OtherTx == [vout |-> <<TxOut(OtherScript, "big")>>]

\* Merkle proofs offered for transaction tx.
GoodProof(tx) == MerkleBlock(1, <<Hash(tx)>>, TRUE, TRUE)
ProofsFor(tx) ==
    {Buf(GoodProof(tx)), Truncated(GoodProof(tx)), Trailing(GoodProof(tx)),
     Buf(MerkleBlock(2, <<Hash(tx)>>, TRUE, TRUE)),
     Buf(MerkleBlock(1, <<>>, TRUE, TRUE)),
     Buf(MerkleBlock(1, <<Hash(OtherTx)>>, TRUE, TRUE)),
     Buf(MerkleBlock(1, <<Hash(tx), Hash(OtherTx)>>, TRUE, TRUE))}

\* Outputs of the parent transactions the claim matcher is run on.
PeginOuts ==
    {PegOut(0, 1, "ok"), PegOut(1, 2, "ok"), PegOut(0, 3, "ok"),
     PegOut(0, 2, "blinded"), PegOut(1, 1, "big"), TxOut(OtherScript, "ok")}
PeginTxs == {[vout |-> v] : v \in SeqsUpTo(PeginOuts, MaxOut)}

Request(input_idx, claim_scripts, txData, txOutProofData) ==
    [input_idx |-> input_idx, claim_scripts |-> claim_scripts,
     txData |-> txData, txOutProofData |-> txOutProofData]

\* The calls made on transaction m: any proof buffer on any prepared
\* transaction with a fixed claim, and any parent transaction and claim-script
\* set with a sound proof on the empty transaction.
Requests(m) ==
    {Request(i, {1}, txData, proof) :
        i \in 0..MaxVin,
        <<txData, proof>> \in UNION {({Buf(tx), Truncated(tx)} \X ProofsFor(tx)) :
                                       tx \in {GoodTx, BigTx}}}
    \cup
    (IF m = EmptyTx
     THEN {Request(i, cs, Buf(tx), Buf(GoodProof(tx))) :
             i \in 0..MaxVin, cs \in SUBSET ClaimIds, tx \in PeginTxs}
     ELSE {})

NoPending ==
    [active |-> FALSE, req |-> Request(0, {}, Buf(OtherTx), Buf(GoodProof(OtherTx))),
     fedpegscripts |-> <<>>, prep |-> PrepFail(""), pre |-> EmptyTx]

NoCall ==
    [op |-> "none", req |-> Request(0, {}, Buf(OtherTx), Buf(GoodProof(OtherTx))),
     pre |-> EmptyTx, matchFeds |-> <<>>, verifyFeds |-> <<>>,
     prep |-> PrepFail(""), err |-> ""]

NoLookup == [done |-> FALSE, txn |-> OtherTx, claim |-> 0, fedpegscripts |-> <<>>, nOut |-> 0]

\* Scripts of the outputs GetPeginTxnOutputIndex is looked up on.
LookupScripts ==
    {[kind |-> k, fed |-> f, claim |-> c] : k \in {"wsh", "sh"}, f \in 0..MaxTip, c \in {1, 2}}
    \cup {OtherScript}
LookupTxs == {[vout |-> v] : v \in SeqsUpTo({TxOut(s, "ok") : s \in LookupScripts}, MaxOut)}

\* ----------------------------------------------- ConstructTransaction data
\* A UniValue field that may be absent: Num(v) when it is the number v.
Absent == [has |-> FALSE, val |-> 0]
Num(v) == [has |-> TRUE, val |-> v]

LOCKTIME_MAX == 2 ^ UIntBits - 1

\* Scripts of the outputs ConstructTransaction builds.
OpReturn(tag) == [kind |-> "op_return", fed |-> 0, claim |-> tag]
AddrScript(a) == [kind |-> "addr", fed |-> 0, claim |-> a]

\* The peg-in fields of an input object: whether pegin_claim_script is hex,
\* the claim script it encodes, and the two byte strings.
Payload(hex, claim, txData, proof) ==
    [hex |-> hex, claim |-> claim, txData |-> txData, proof |-> proof]

Fed1Tx == [vout |-> <<TxOut(OtherScript, "ok"), PegOut(1, 2, "ok")>>]
NoPayload == Payload(TRUE, 0, Buf(OtherTx), Buf(GoodProof(OtherTx)))
Payloads ==
    {Payload(TRUE, 1, Buf(GoodTx), Buf(GoodProof(GoodTx))),
     Payload(TRUE, 2, Buf(Fed1Tx), Buf(GoodProof(Fed1Tx))),
     Payload(FALSE, 1, Buf(GoodTx), Buf(GoodProof(GoodTx))),
     Payload(TRUE, 1, Buf(GoodTx), Trailing(GoodProof(GoodTx))),
     Payload(TRUE, 1, Buf(BigTx), Buf(GoodProof(BigTx))),
     Payload(TRUE, 1, Buf(GoodTx), Buf(MerkleBlock(1, <<Hash(GoodTx)>>, FALSE, TRUE)))}

\* One element of the "inputs" array.
InputObj(vout, sequence, has_tx, has_proof, has_script, payload) ==
    [txid |-> Hash(FundingTx), vout |-> vout, sequence |-> sequence,
     pegin_bitcoin_tx |-> has_tx, pegin_txout_proof |-> has_proof,
     pegin_claim_script |-> has_script, payload |-> payload]

SequenceArgs ==
    {Absent} \cup {Num(v) : v \in {-1, 0, MAX_BIP125_RBF_SEQUENCE,
                                   SEQUENCE_FINAL - 1, SEQUENCE_FINAL,
                                   SEQUENCE_FINAL + 1}}
VoutArgs == {Absent, Num(-1), Num(0)}
LocktimeArgs == {Absent, Num(-1), Num(0), Num(1), Num(LOCKTIME_MAX + 1)}

\* The input objects: any sequence field without peg-in fields, any
\* incomplete set of peg-in fields, every payload with no, a low and a
\* replaceable sequence field, and a missing or negative vout.
InputObjs ==
    {InputObj(Num(0), q, FALSE, FALSE, FALSE, NoPayload) : q \in SequenceArgs}
    \cup
    {InputObj(Num(0), Absent, a, b, c, NoPayload) :
        <<a, b, c>> \in (BOOLEAN \X BOOLEAN \X BOOLEAN) \ {<<TRUE, TRUE, TRUE>>}}
    \cup
    {InputObj(Num(0), q, TRUE, TRUE, TRUE, pl) :
        q \in {Absent, Num(0), Num(MAX_BIP125_RBF_SEQUENCE)}, pl \in Payloads}
    \cup
    {InputObj(v, Absent, FALSE, FALSE, FALSE, NoPayload) : v \in VoutArgs}

\* One key of the "outputs" object with its value.
Entry(name, amount) == [name |-> name, amount |-> amount]
ValidAddresses == {"addrA", "addrB"}

\* The output specifications: every sequence of up to MaxOutputs of the
\* common entries with at most one "fee" key, and one of each other key.
CommonEntries == {Entry("data", 0), Entry("fee", 0), Entry("fee", 5), Entry("addrA", 1)}
OutputSpecs ==
    {o \in SeqsUpTo(CommonEntries, MaxOutputs) :
        Cardinality({k \in DOMAIN o : o[k].name = "fee"}) <= 1}
    \cup {<<Entry("vdata", 0)>>, <<Entry("burn", 2)>>, <<Entry("bogus", 1)>>,
          <<Entry("fee", -1)>>, <<Entry("addrA", -1)>>,
          <<Entry("fee", 5), Entry("burn", 2)>>, <<Entry("addrB", 1), Entry("fee", 5)>>}

\* The outputs loop never reads the inputs: a transaction with several inputs
\* is given one of a few output specifications only.
BasicOutputSpecs == {<<>>, <<Entry("addrA", 1)>>, <<Entry("fee", 5), Entry("addrA", 1)>>}
OutputSpecsFor(rawTx) == IF Len(rawTx.vin) <= 1 THEN OutputSpecs ELSE BasicOutputSpecs

NoConstruct ==
    [pc |-> "idle", rbf |-> FALSE, allow_peg_in |-> FALSE,
     inputs |-> <<>>, outputs |-> <<>>, rawTx |-> EmptyTx, err |-> "",
     fedReads |-> <<>>, verifyReads |-> <<>>, prep |-> PrepFail("")]

NoValidate ==
    [pc |-> "idle", fedpegscripts |-> <<>>, i |-> 0, input_errors |-> {},
     immature_pegin |-> FALSE, reads |-> <<>>]

\* SignTransaction (lines 528-538) not called yet.
NoSign ==
    [pc |-> "idle", mtx |-> EmptyTx, fedpegscripts |-> <<>>, i |-> 0,
     pegin_errors |-> {}, input_errors |-> {}, immature_pegin |-> FALSE,
     signed |-> FALSE, complete |-> FALSE, warning |-> FALSE]

\* Scripts of previous outputs: a script is a sequence of tags, and the
\* script that pays to the hash of a script is that script with a tag in
\* front.
ScriptA == <<"A">>
ScriptB == <<"B">>
P2SH(script) == <<"p2sh">> \o script
P2WSH(script) == <<"p2wsh">> \o script
IsPayToScriptHash(script) == Len(script) > 0 /\ script[1] = "p2sh"
IsPayToWitnessScriptHash(script) == Len(script) > 0 /\ script[1] = "p2wsh"

\* A hex string: the bytes it encodes and the case of its digits.
Hex(script, upper) == [has |-> TRUE, bytes |-> script, upper |-> upper]
NoHex == [has |-> FALSE, bytes |-> <<>>, upper |-> FALSE]
ParseHexV(h) == h.bytes

\* MAX_MONEY on the scale of the amounts of the model.
MAX_MONEY == 21 * 100

\* CConfidentialValue: an explicit amount or a commitment.
Explicit(v) == [commitment |-> FALSE, v |-> v]
Commitment(v) == [commitment |-> TRUE, v |-> v]

\* Coin: its output, its height, and whether it is spent (a null output).
Coin(scriptPubKey, nValue) ==
    [scriptPubKey |-> scriptPubKey, nValue |-> nValue, nHeight |-> 1, spent |-> FALSE]
EmptyCoin == [scriptPubKey |-> <<>>, nValue |-> Explicit(0), nHeight |-> 0, spent |-> TRUE]
ChainCoin == [scriptPubKey |-> ScriptA, nValue |-> Explicit(7), nHeight |-> 9, spent |-> FALSE]

\* std::map<COutPoint, Coin>: coins[out] = coin.
NoCoins == [o \in {} |-> EmptyCoin]
PutCoin(coins, out, coin) ==
    [o \in DOMAIN coins \cup {out} |-> IF o = out THEN coin ELSE coins[o]]

\* One element of the prevtxs array.
PrevOut(isObject, vout, scriptPubKey, amount, amountcommitment, redeemScript, witnessScript) ==
    [isObject |-> isObject, txid |-> Hash(FundingTx), vout |-> vout,
     scriptPubKey |-> scriptPubKey, amount |-> amount,
     amountcommitment |-> amountcommitment,
     redeemScript |-> redeemScript, witnessScript |-> witnessScript]
NoPrevOut == PrevOut(FALSE, 0, <<>>, Absent, NoHex, NoHex, NoHex)

\* The records: every scriptPubKey with an amount, a commitment, both or
\* neither and no further script on two outpoints, a negative output index,
\* an element that is not an object, and every pair of redeemScript and
\* witnessScript for the scriptPubKeys built from ScriptA on one outpoint.
PrevScriptPubKeys ==
    {ScriptA, ScriptB, P2SH(ScriptA), P2WSH(ScriptA), P2SH(P2WSH(ScriptA))}
PrevScriptArgs ==
    {NoHex, Hex(ScriptA, FALSE), Hex(ScriptA, TRUE), Hex(P2WSH(ScriptA), FALSE)}
PrevAmountArgs ==
    {<<Absent, NoHex>>, <<Num(5), NoHex>>, <<Num(5), Hex(<<"commitment">>, FALSE)>>,
     <<Absent, Hex(<<"commitment">>, FALSE)>>, <<Num(-1), NoHex>>}
PrevOuts ==
    {PrevOut(TRUE, n, spk, ac[1], ac[2], NoHex, NoHex) :
        n \in {0, 1}, spk \in PrevScriptPubKeys, ac \in PrevAmountArgs}
    \cup {PrevOut(TRUE, -1, ScriptA, Absent, NoHex, NoHex, NoHex), NoPrevOut}
    \cup {PrevOut(TRUE, 0, spk, Absent, NoHex, rs, ws) :
            spk \in PrevScriptPubKeys \ {ScriptB},
            rs \in PrevScriptArgs, ws \in PrevScriptArgs}

\* The coin maps ParsePrevouts is called with: empty, an empty entry for the
\* outpoint of an input, or the coin the chain has for it.
CallerCoins ==
    {NoCoins, PutCoin(NoCoins, COutPoint(Hash(FundingTx), 0), EmptyCoin),
     PutCoin(NoCoins, COutPoint(Hash(FundingTx), 0), ChainCoin)}

\* ParsePrevouts (lines 381-503) not called yet: an empty coin map and a key
\* provider without scripts.
NoPrevouts ==
    [pc |-> "idle", keystore |-> FALSE, coins |-> NoCoins, scripts |-> {},
     n |-> 0, p |-> NoPrevOut, err |-> "",
     pre |-> [coins |-> NoCoins, scripts |-> {}]]

\* ------------------------------------------------------------------ actions
Init ==
    /\ tip = 0
    /\ mtx = EmptyTx
    /\ call = NoPending
    /\ last = NoCall
    /\ found = NoLookup
    /\ ct = NoConstruct
    /\ vt = NoValidate
    /\ sg = NoSign
    /\ pp = NoPrevouts

\* A block that starts a new federation epoch is connected by another thread.
AdvanceTip ==
    /\ tip < MaxTip
    /\ tip' = tip + 1
    /\ UNCHANGED <<mtx, call, last, found, ct, vt, sg, pp>>

\* The caller prepares a transaction for the next CreatePegInInput call.
NewTransaction ==
    /\ ~call.active
    /\ last.op = "none"
    /\ ~found.done
    /\ mtx = EmptyTx
    /\ \E m \in PreparedTxs : mtx' = m
    /\ last' = NoCall
    /\ found' = NoLookup
    /\ UNCHANGED <<tip, call, ct, vt, sg, pp>>

\* The list line 122 passes to IsValidPeginWitness, re-read from the chain
\* instead of taken from the local of line 82.
VerifyFedpegscriptsReread(c, t) == GetValidFedpegScripts(t)

\* The list line 122 passes to IsValidPeginWitness: the local of line 82.
VerifyFedpegscripts(c, t) == c.fedpegscripts

\* CreatePegInInput, lines 48-108: the checks, with the one read of the chain
\* tip at line 82.  A failed check throws and the call is over.
CreatePegInInputBegin ==
    /\ ~call.active
    /\ last.op = "none"
    /\ ~found.done
    /\ \E req \in Requests(mtx) :
         LET fedpegscripts == GetValidFedpegScripts(tip)
             prep == PegInPrepare(mtx, req.input_idx, req.claim_scripts,
                                  req.txData, req.txOutProofData, fedpegscripts)
         IN  IF prep.err # ""
             THEN /\ last' = [op |-> "pegin", req |-> req, pre |-> mtx,
                              matchFeds |-> fedpegscripts, verifyFeds |-> <<>>,
                              prep |-> prep, err |-> prep.err]
                  /\ call' = call
             ELSE /\ call' = [active |-> TRUE, req |-> req,
                              fedpegscripts |-> fedpegscripts, prep |-> prep, pre |-> mtx]
                  /\ last' = last
    /\ UNCHANGED <<tip, mtx, found, ct, vt, sg, pp>>

\* CreatePegInInput, lines 110-134: the input is installed, the witness
\* verified and attached, and the call returns or throws.
CreatePegInInputFinish ==
    /\ call.active
    /\ LET fedpegscripts == VerifyFedpegscripts(call, tip)
           r == PegInInstall(mtx, call.req.input_idx, call.prep, fedpegscripts)
       IN  /\ mtx' = r.mtx
           /\ last' = [op |-> "pegin", req |-> call.req, pre |-> call.pre,
                       matchFeds |-> call.fedpegscripts, verifyFeds |-> fedpegscripts,
                       prep |-> call.prep, err |-> r.err]
    /\ call' = NoPending
    /\ UNCHANGED <<tip, found, ct, vt, sg, pp>>

\* GetPeginTxnOutputIndex called on its own.
LookupOutputIndex ==
    /\ ~call.active
    /\ ~found.done
    /\ last.op = "none"
    /\ mtx = EmptyTx
    /\ \E txn \in LookupTxs, c \in ClaimIds :
         found' = [done |-> TRUE, txn |-> txn, claim |-> c,
                   fedpegscripts |-> GetValidFedpegScripts(tip),
                   nOut |-> GetPeginTxnOutputIndex(txn, c, GetValidFedpegScripts(tip))]
    /\ UNCHANGED <<tip, mtx, call, last, ct, vt, sg, pp>>

Next ==
    \/ AdvanceTip
    \/ NewTransaction
    \/ CreatePegInInputBegin
    \/ CreatePegInInputFinish
    \/ LookupOutputIndex

Spec == Init /\ [][Next]_vars


\* ------------------------------------------------------ ConstructTransaction
ErrOutputsNull == "Invalid parameter, output argument must be non-null"
ErrLocktime == "Invalid parameter, locktime out of range"
ErrMissingVout == "Invalid parameter, missing vout key"
ErrNegativeVout == "Invalid parameter, vout cannot be negative"
ErrSequence == "Invalid parameter, sequence number is out of range"
ErrNotHex == "Given claim_script is not hex."
ErrSomePegin == "Some but not all pegin_ arguments provided"
ErrNoPeginHere == "pegin_ arguments provided but this command does not support peg-ins"
ErrDuplicateData == "Invalid parameter, duplicate key: data"
ErrBadAddress == "Invalid Bitcoin address"
ErrDuplicateAddress == "Invalid parameter, duplicated address"
ErrAmount == "Amount out of range"
ErrRbf == "Invalid parameter combination: Sequence number(s) contradict replaceable option"

\* A wrong default: the lock time is not looked at.
DefaultSequenceNoLockTime(rbf, nLockTime) ==
    IF rbf THEN MAX_BIP125_RBF_SEQUENCE ELSE SEQUENCE_FINAL

\* lines 189-196: the sequence number of an input that names none.
DefaultSequence(rbf, nLockTime) ==
    IF rbf THEN MAX_BIP125_RBF_SEQUENCE
    ELSE IF nLockTime # 0 THEN SEQUENCE_FINAL - 1
    ELSE SEQUENCE_FINAL

\* lines 189-207: the sequence number of the input, or the range error.
InputSequence(rbf, nLockTime, sequenceObj) ==
    IF sequenceObj.has
    THEN IF sequenceObj.val < 0 \/ sequenceObj.val > SEQUENCE_FINAL
         THEN [err |-> ErrSequence, nSequence |-> 0]
         ELSE [err |-> "", nSequence |-> sequenceObj.val % (2 ^ UIntBits)]
    ELSE [err |-> "", nSequence |-> DefaultSequence(rbf, nLockTime)]

\* A wrong dispatch: allow_peg_in is not looked at.
PeginDispatchAlways(o, allow_peg_in) ==
    IF o.pegin_bitcoin_tx /\ o.pegin_txout_proof /\ o.pegin_claim_script
    THEN "pegin"
    ELSE IF o.pegin_bitcoin_tx \/ o.pegin_txout_proof \/ o.pegin_claim_script
    THEN ErrSomePegin
    ELSE ""

\* lines 216 and 240-246: "pegin" when the input goes to peg-in construction,
\* the error thrown when only part of the condition holds, "" otherwise.
PeginDispatch(o, allow_peg_in) ==
    IF o.pegin_bitcoin_tx /\ o.pegin_txout_proof /\ o.pegin_claim_script /\ allow_peg_in
    THEN "pegin"
    ELSE IF o.pegin_bitcoin_tx \/ o.pegin_txout_proof \/ o.pegin_claim_script
    THEN (IF allow_peg_in THEN ErrSomePegin ELSE ErrNoPeginHere)
    ELSE ""

\* CheckParentProofOfWork / CheckProofSignedParent on the proof's header.
CheckParentProof(header) == header.work

\* SignalsOptInRBF: some input's sequence number is at most
\* MAX_BIP125_RBF_SEQUENCE.
SignalsOptInRBF(tx) ==
    \E i \in DOMAIN tx.vin : tx.vin[i].nSequence <= MAX_BIP125_RBF_SEQUENCE

\* AmountFromValue: negative amounts are out of range.
AmountFromValue(v) == [ok |-> v >= 0, amount |-> v]

\* CTxOut(asset, nValue, scriptPubKey) of the sidechain; CTxOut() has a null
\* value.
CTxOut(nValue, scriptPubKey) == [scriptPubKey |-> scriptPubKey, nValue |-> nValue, null |-> FALSE]
NullTxOut == [scriptPubKey |-> EmptyScript, nValue |-> 0, null |-> TRUE]

OutputsState(err, vout, fee_out, destinations, has_data) ==
    [err |-> err, vout |-> vout, fee_out |-> fee_out,
     destinations |-> destinations, has_data |-> has_data]

\* lines 271-346, one key of the outputs: st is the loop's state so far.
OutputStep(st, e) ==
    LET amt == AmountFromValue(e.amount)
        fail(msg) == [st EXCEPT !.err = msg]
        push(out) == [st EXCEPT !.vout = Append(st.vout, out)]
    IN  IF e.name = "data"
        THEN IF st.has_data THEN fail(ErrDuplicateData)
             ELSE [push(CTxOut(0, OpReturn(1))) EXCEPT !.has_data = TRUE]
        ELSE IF e.name = "vdata" THEN push(CTxOut(0, OpReturn(2)))
        ELSE IF e.name = "fee"
        THEN IF ~amt.ok THEN fail(ErrAmount)
             ELSE [st EXCEPT !.fee_out = CTxOut(amt.amount, EmptyScript)]
        ELSE IF e.name = "burn"
        THEN IF ~amt.ok THEN fail(ErrAmount)
             ELSE push(CTxOut(amt.amount, OpReturn(0)))
        ELSE IF e.name \notin ValidAddresses THEN fail(ErrBadAddress)
        ELSE IF e.name \in st.destinations THEN fail(ErrDuplicateAddress)
        ELSE IF ~amt.ok THEN [fail(ErrAmount) EXCEPT !.destinations = @ \cup {e.name}]
        ELSE [push(CTxOut(amt.amount, AddrScript(e.name)))
                EXCEPT !.destinations = @ \cup {e.name}]

\* lines 271-346: the loop over the keys, stopped by the first error.
RECURSIVE OutputsLoop(_, _, _)
OutputsLoop(st, outputs, k) ==
    IF k > Len(outputs) \/ st.err # "" THEN st
    ELSE OutputsLoop(OutputStep(st, outputs[k]), outputs, k + 1)

\* lines 264-354 with the fee output pushed whatever its amount.
BuildOutputsFeeAlways(outputs) ==
    LET st == OutputsLoop(OutputsState("", <<>>, NullTxOut, {}, FALSE), outputs, 1)
    IN  IF st.err # "" THEN [err |-> st.err, vout |-> <<>>]
        ELSE IF ~st.fee_out.null
        THEN [err |-> "", vout |-> Append(st.vout, st.fee_out)]
        ELSE [err |-> "", vout |-> st.vout]

\* lines 264-354: the outputs in key order, then the fee output when its
\* amount is positive.
BuildOutputs(outputs) ==
    LET st == OutputsLoop(OutputsState("", <<>>, NullTxOut, {}, FALSE), outputs, 1)
    IN  IF st.err # "" THEN [err |-> st.err, vout |-> <<>>]
        ELSE IF ~st.fee_out.null /\ st.fee_out.nValue > 0
        THEN [err |-> "", vout |-> Append(st.vout, st.fee_out)]
        ELSE [err |-> "", vout |-> st.vout]

\* A wrong check: the replaceable option is never compared with the inputs.
RbfContradictionNever(rbf, rawTx) == FALSE

\* line 356: the sequence numbers contradict the replaceable option.
RbfContradiction(rbf, rawTx) ==
    rbf /\ Len(rawTx.vin) > 0 /\ ~SignalsOptInRBF(rawTx)

CtFail(c, msg) == [c EXCEPT !.pc = "failed", !.err = msg]

\* lines 148-174: a call starts; the arguments are checked and the lock time
\* set.  The inputs and outputs are read as the loops reach them.
CT_Start ==
    /\ ct.pc = "idle"
    /\ \E outputs_null \in BOOLEAN, locktime \in LocktimeArgs,
          rbf \in BOOLEAN, allow_peg_in \in BOOLEAN :
         LET c == [NoConstruct EXCEPT !.pc = "inputs", !.rbf = rbf,
                                      !.allow_peg_in = allow_peg_in]
         IN  ct' = IF outputs_null THEN CtFail(c, ErrOutputsNull)
                   ELSE IF locktime.has /\ (locktime.val < 0 \/ locktime.val > LOCKTIME_MAX)
                   THEN CtFail(c, ErrLocktime)
                   ELSE IF locktime.has
                   THEN [c EXCEPT !.rawTx.nLockTime = locktime.val]
                   ELSE c
    /\ UNCHANGED <<tip, mtx, call, last, found, vt, sg, pp>>

\* lines 177-246 for the next input, up to line 108 of CreatePegInInput when
\* the input is a peg-in: the chain tip is read there.
CT_Input ==
    /\ ct.pc = "inputs"
    /\ Len(ct.inputs) < MaxInputs
    /\ \E o \in InputObjs :
         LET c == [ct EXCEPT !.inputs = Append(@, o)]
             idx == Len(ct.inputs)
             seq == InputSequence(ct.rbf, ct.rawTx.nLockTime, o.sequence)
             in == CTxIn(COutPoint(o.txid, o.vout.val), EmptyScript, seq.nSequence)
             rawTx == [ct.rawTx EXCEPT !.vin = Append(@, in)]
             pushed == [c EXCEPT !.rawTx = rawTx]
             how == PeginDispatch(o, ct.allow_peg_in)
             fedpegscripts == GetValidFedpegScripts(tip)
             prep == PegInPrepare(rawTx, idx, {o.payload.claim}, o.payload.txData,
                                  o.payload.proof, fedpegscripts)
         IN  ct' = IF ~o.vout.has THEN CtFail(c, ErrMissingVout)
                   ELSE IF o.vout.val < 0 THEN CtFail(c, ErrNegativeVout)
                   ELSE IF seq.err # "" THEN CtFail(c, seq.err)
                   ELSE IF how = "" THEN pushed
                   ELSE IF how # "pegin" THEN CtFail(pushed, how)
                   ELSE IF ~o.payload.hex THEN CtFail(pushed, ErrNotHex)
                   ELSE IF prep.err # "" THEN CtFail(pushed, prep.err)
                   ELSE [pushed EXCEPT !.pc = "pegin", !.prep = prep,
                                       !.fedReads = Append(@, fedpegscripts)]
    /\ UNCHANGED <<tip, mtx, call, last, found, vt, sg, pp>>

\* lines 110-134 of CreatePegInInput for the input, then the check of the
\* parent header (lines 229 and 236).
CT_PeginFinish ==
    /\ ct.pc = "pegin"
    /\ LET idx == Len(ct.inputs) - 1
           fedpegscripts ==
               VerifyFedpegscripts([fedpegscripts |-> ct.fedReads[Len(ct.fedReads)]], tip)
           r == PegInInstall(ct.rawTx, idx, ct.prep, fedpegscripts)
           c == [ct EXCEPT !.rawTx = r.mtx, !.prep = PrepFail(""),
                           !.verifyReads = Append(@, fedpegscripts)]
       IN  ct' = IF r.err # "" THEN CtFail(c, r.err)
                 ELSE IF ~CheckParentProof(ct.prep.merkleBlock.header)
                 THEN CtFail(c, ErrInvalidProof)
                 ELSE [c EXCEPT !.pc = "inputs"]
    /\ UNCHANGED <<tip, mtx, call, last, found, vt, sg, pp>>

\* lines 249-360: the inputs array is exhausted; the outputs are built, the
\* replaceable option checked, and the transaction returned.
CT_Outputs ==
    /\ ct.pc = "inputs"
    /\ \E outputs \in OutputSpecsFor(ct.rawTx) :
         LET built == BuildOutputs(outputs)
             c == [ct EXCEPT !.outputs = outputs, !.rawTx.vout = built.vout]
         IN  ct' = IF built.err # "" THEN CtFail(c, built.err)
                   ELSE IF RbfContradiction(ct.rbf, c.rawTx) THEN CtFail(c, ErrRbf)
                   ELSE [c EXCEPT !.pc = "returned"]
    /\ UNCHANGED <<tip, mtx, call, last, found, vt, sg, pp>>

\* ------------------------------------------- ValidateTransactionPeginInputs
ErrPeginProof == "Peg-in input has invalid proof."

\* The list lines 515 and 520 pass to IsValidPeginWitness: the local of line
\* 508.
ValidateFedpegscripts(v, t) == v.fedpegscripts

\* IsValidPeginWitness on the m_pegin_witness of a witness slot; an empty
\* peg-in witness is not valid.
SlotError(txinwit, fedpegscripts, prevout, check_depth) ==
    IF txinwit.pegin = <<>> THEN "Not enough stack items."
    ELSE IsValidPeginWitness(txinwit.pegin[1], fedpegscripts, prevout, check_depth)

\* ValidateInput with the depth failure recorded as an error too.
ValidateInputStrict(tx, i, fedpegscripts) ==
    LET txin == tx.vin[i + 1]
    IN  IF /\ txin.m_is_pegin
           /\ \/ Len(tx.vtxinwit) <= i
              \/ SlotError(tx.vtxinwit[i + 1], fedpegscripts, txin.prevout, TRUE) # ""
        THEN [err |-> ErrPeginProof, immature |-> FALSE]
        ELSE [err |-> "", immature |-> FALSE]

\* lines 513-523 for input i of tx (numbered from 0): the error recorded for
\* it ("" when none) and whether it is an immature peg-in.
ValidateInput(tx, i, fedpegscripts) ==
    LET txin == tx.vin[i + 1]
    IN  IF /\ txin.m_is_pegin
           /\ \/ Len(tx.vtxinwit) <= i
              \/ SlotError(tx.vtxinwit[i + 1], fedpegscripts, txin.prevout, FALSE) # ""
        THEN [err |-> ErrPeginProof, immature |-> FALSE]
        ELSE [err |-> "",
              immature |-> /\ txin.m_is_pegin
                           /\ SlotError(tx.vtxinwit[i + 1], fedpegscripts,
                                        txin.prevout, TRUE) # ""]

\* lines 508-510: SignTransaction is called on a transaction with a peg-in
\* input that ConstructTransaction returned; the chain tip is read.  The loop
\* never reads the outputs: the transactions validated have none.
VT_Start ==
    /\ ct.pc = "returned"
    /\ vt.pc = "idle"
    /\ ct.rawTx.vout = <<>>
    /\ \E k \in DOMAIN ct.rawTx.vin : ct.rawTx.vin[k].m_is_pegin
    /\ vt' = [NoValidate EXCEPT !.pc = "inputs",
                                !.fedpegscripts = GetValidFedpegScripts(tip)]
    /\ UNCHANGED <<tip, mtx, call, last, found, ct, sg, pp>>

\* lines 512-524: one turn of the loop.
VT_Input ==
    /\ vt.pc = "inputs"
    /\ vt.i < Len(ct.rawTx.vin)
    /\ LET fedpegscripts == ValidateFedpegscripts(vt, tip)
           r == ValidateInput(ct.rawTx, vt.i, fedpegscripts)
       IN  vt' = [vt EXCEPT
                    !.i = @ + 1,
                    !.input_errors = IF r.err # "" THEN @ \cup {<<vt.i, r.err>>} ELSE @,
                    !.immature_pegin = @ \/ r.immature,
                    !.reads = IF ct.rawTx.vin[vt.i + 1].m_is_pegin
                              THEN Append(@, fedpegscripts) ELSE @]
    /\ UNCHANGED <<tip, mtx, call, last, found, ct, sg, pp>>

\* line 525: the loop is over and immature_pegin returned.
VT_Return ==
    /\ vt.pc = "inputs"
    /\ vt.i >= Len(ct.rawTx.vin)
    /\ vt' = [vt EXCEPT !.pc = "done"]
    /\ UNCHANGED <<tip, mtx, call, last, found, ct, sg, pp>>

NextConstruct ==
    \/ AdvanceTip
    \/ CT_Start
    \/ CT_Input
    \/ CT_PeginFinish
    \/ CT_Outputs
    \/ VT_Start
    \/ VT_Input
    \/ VT_Return

SpecConstruct == Init /\ [][NextConstruct]_vars

\* ---------------------------------------------------------- SignTransaction
ErrMissingAmount == "Missing amount"
ErrNotFound == "Input not found or already spent"
ErrOutOfRange == "std::out_of_range"

\* Peg-in inputs and their witnesses as a decoded transaction carries them.
PeginTxIn(tx, nOut) ==
    [CTxIn(COutPoint(Hash(tx), nOut), EmptyScript, SEQUENCE_FINAL)
       EXCEPT !.m_is_pegin = TRUE]
PeginTxInWitness(claim, tx, mature) ==
    [stack |-> "empty",
     pegin |-> <<CreatePeginWitness("ok", claim, tx,
                                    MerkleBlock(1, <<Hash(tx)>>, TRUE, mature))>>]

\* The transactions SignTransaction is called on: up to MaxInputs inputs, each
\* a plain input or a peg-in of GoodTx or Fed1Tx, and at most one witness slot
\* per input: null, or a peg-in witness for GoodTx (deep enough or not) or
\* for Fed1Tx.
SignableTxIns == {BlankTxIn, PeginTxIn(GoodTx, 0), PeginTxIn(Fed1Tx, 1)}
SignableTxInWitnesses ==
    {NullTxInWitness, PeginTxInWitness(1, GoodTx, TRUE),
     PeginTxInWitness(1, GoodTx, FALSE), PeginTxInWitness(2, Fed1Tx, FALSE)}
SignableTxs ==
    {[EmptyTx EXCEPT !.vin = vin, !.vtxinwit = wit] :
        <<vin, wit>> \in {x \in SeqsUpTo(SignableTxIns, MaxInputs)
                                  \X SeqsUpTo(SignableTxInWitnesses, MaxInputs) :
                            Len(x[1]) > 0 /\ Len(x[2]) <= Len(x[1])}}

\* input_errors[i] = msg on a std::map kept as a set of <<index, message>>.
SetError(input_errors, i, msg) ==
    {e \in input_errors : e[1] # i} \cup {<<i, msg>>}

\* The external signer, SignTransaction(mtx, keystore, coins, nHashType,
\* input_errors): whether the transaction is complete, the error it records
\* for at most one input, and whether it leaves a witness slot for every
\* input.
SignerOutcomes(tx) ==
    {[complete |-> c, errors |-> e, resized |-> r] :
        c \in BOOLEAN, r \in BOOLEAN,
        e \in {{}} \cup {{<<k, msg>>} : k \in 0..(Len(tx.vin) - 1),
                                        msg \in {ErrMissingAmount, ErrNotFound}}}

\* lines 544-550: the exception SignTransactionResultToJSON leaves with, ""
\* when it returns.  The errors are visited by input index; "Missing amount"
\* throws at line 547 and a missing witness slot at line 549.
ResultError(tx, input_errors) ==
    LET bad == {e \in input_errors :
                  e[2] = ErrMissingAmount \/ Len(tx.vtxinwit) <= e[1]}
        first == CHOOSE e \in bad : \A f \in bad : e[1] <= f[1]
    IN  IF bad = {} THEN ""
        ELSE IF first[2] = ErrMissingAmount THEN ErrMissingAmount
        ELSE ErrOutOfRange

\* lines 530-535 and 508-510: SignTransaction is called and
\* ValidateTransactionPeginInputs reads the chain tip.
SG_Start ==
    /\ sg.pc = "idle"
    /\ \E tx \in SignableTxs :
         sg' = [NoSign EXCEPT !.pc = "validate", !.mtx = tx,
                              !.fedpegscripts = GetValidFedpegScripts(tip)]
    /\ UNCHANGED <<tip, mtx, call, last, found, ct, vt, pp>>

\* lines 512-524: one turn of the loop of ValidateTransactionPeginInputs.
SG_ValidateInput ==
    /\ sg.pc = "validate"
    /\ sg.i < Len(sg.mtx.vin)
    /\ LET r == ValidateInput(sg.mtx, sg.i, ValidateFedpegscripts(sg, tip))
       IN  sg' = [sg EXCEPT
                    !.i = @ + 1,
                    !.input_errors = IF r.err # "" THEN SetError(@, sg.i, r.err) ELSE @,
                    !.pegin_errors = IF r.err # "" THEN SetError(@, sg.i, r.err) ELSE @,
                    !.immature_pegin = @ \/ r.immature]
    /\ UNCHANGED <<tip, mtx, call, last, found, ct, vt, pp>>

\* lines 525 and 536: immature_pegin is returned and the transaction handed to
\* the signer, which adds its errors to input_errors.
SG_Sign ==
    /\ sg.pc = "validate"
    /\ sg.i >= Len(sg.mtx.vin)
    /\ \E o \in SignerOutcomes(sg.mtx) :
         sg' = [sg EXCEPT
                  !.pc = "signed", !.signed = TRUE, !.complete = o.complete,
                  !.input_errors = {e \in @ : \A f \in o.errors : f[1] # e[1]}
                                     \cup o.errors,
                  !.mtx.vtxinwit = IF o.resized
                                   THEN Resize(@, Len(sg.mtx.vin), NullTxInWitness)
                                   ELSE @]
    /\ UNCHANGED <<tip, mtx, call, last, found, ct, vt, pp>>

\* lines 537 and 540-563: the result is built, or the call throws.
SG_Result ==
    /\ sg.pc = "signed"
    /\ sg' = IF ResultError(sg.mtx, sg.input_errors) # ""
             THEN [sg EXCEPT !.pc = "thrown"]
             ELSE [sg EXCEPT !.pc = "returned", !.warning = sg.immature_pegin]
    /\ UNCHANGED <<tip, mtx, call, last, found, ct, vt, pp>>

NextSign ==
    \/ AdvanceTip
    \/ SG_Start
    \/ SG_ValidateInput
    \/ SG_Sign
    \/ SG_Result

SpecSign == Init /\ [][NextSign]_vars

\* ------------------------------------------------------------ ParsePrevouts
ErrExpectedObject == "expected object with {\"txid'\",\"vout\",\"scriptPubKey\"}"
ErrVoutNegative == "vout cannot be negative"
ErrScriptMismatch == "Previous output scriptPubKey mismatch"
ErrMissingScripts == "Missing redeemScript/witnessScript"
ErrNotCorresponding == "redeemScript does not correspond to witnessScript"
ErrNoMatch == "redeemScript/witnessScript does not match scriptPubKey"

\* What one turn of the loop leaves: the exception ("" when none), the coin
\* map and the scripts of the key provider.
PrevState(err, coins, scripts) == [err |-> err, coins |-> coins, scripts |-> scripts]

\* lines 411-418: the coin recorded for out is unspent and has another script.
CoinMismatch(coins, out, scriptPubKey) ==
    /\ out \in DOMAIN coins
    /\ ~coins[out].spent
    /\ coins[out].scriptPubKey # scriptPubKey

\* lines 419-428: the coin built from the record.
NewCoin(p) ==
    Coin(p.scriptPubKey,
         IF p.amount.has THEN Explicit(AmountFromValue(p.amount.val).amount)
         ELSE IF p.amountcommitment.has THEN Commitment(ParseHexV(p.amountcommitment))
         ELSE Explicit(MAX_MONEY))

\* lines 470-499: the scriptPubKey is not what script gives.
ScriptPubKeyUnmatched(scriptPubKey, script) ==
    IF IsPayToScriptHash(scriptPubKey)
    THEN scriptPubKey # P2SH(script) /\ scriptPubKey # P2SH(P2WSH(script))
    ELSE IsPayToWitnessScriptHash(scriptPubKey) /\ scriptPubKey # P2WSH(script)

\* lines 433-500 with every check made before a script is registered.
RegisterScriptsChecked(p, keystore, coins, scripts) ==
    LET rs == p.redeemScript
        ws == p.witnessScript
        script == IF ws.has THEN ParseHexV(ws) ELSE ParseHexV(rs)
    IN  IF ~(keystore /\ (IsPayToScriptHash(p.scriptPubKey)
                          \/ IsPayToWitnessScriptHash(p.scriptPubKey)))
        THEN PrevState("", coins, scripts)
        ELSE IF ~rs.has /\ ~ws.has THEN PrevState(ErrMissingScripts, coins, scripts)
        ELSE IF ws.has /\ rs.has /\ ws # rs /\ ParseHexV(rs) # P2WSH(script)
        THEN PrevState(ErrNotCorresponding, coins, scripts)
        ELSE IF ScriptPubKeyUnmatched(p.scriptPubKey, script)
        THEN PrevState(ErrNoMatch, coins, scripts)
        ELSE PrevState("", coins, scripts \cup {script, P2WSH(script)})

\* lines 433-500: the redeemScript or witnessScript of a script-hash output is
\* registered with the key provider and then checked.
RegisterScripts(p, keystore, coins, scripts) ==
    LET rs == p.redeemScript
        ws == p.witnessScript
        script == IF ws.has THEN ParseHexV(ws) ELSE ParseHexV(rs)
        added == scripts \cup {script, P2WSH(script)}
    IN  IF ~(keystore /\ (IsPayToScriptHash(p.scriptPubKey)
                          \/ IsPayToWitnessScriptHash(p.scriptPubKey)))
        THEN PrevState("", coins, scripts)
        ELSE IF ~rs.has /\ ~ws.has THEN PrevState(ErrMissingScripts, coins, scripts)
        ELSE IF ws.has /\ rs.has /\ ws # rs /\ ParseHexV(rs) # P2WSH(script)
        THEN PrevState(ErrNotCorresponding, coins, added)
        ELSE IF ScriptPubKeyUnmatched(p.scriptPubKey, script)
        THEN PrevState(ErrNoMatch, coins, added)
        ELSE PrevState("", coins, added)

\* lines 386-430 with the coin written whatever coin the map holds.
RecordCoinOverwriting(p, coins, scripts) ==
    IF ~p.isObject THEN PrevState(ErrExpectedObject, coins, scripts)
    ELSE IF p.vout < 0 THEN PrevState(ErrVoutNegative, coins, scripts)
    ELSE IF p.amount.has /\ ~AmountFromValue(p.amount.val).ok
    THEN PrevState(ErrAmount, coins, scripts)
    ELSE PrevState("", PutCoin(coins, COutPoint(p.txid, p.vout), NewCoin(p)), scripts)

\* lines 386-430: the record is read, checked against the coin the map holds
\* for its outpoint, and the coin written.
RecordCoin(p, coins, scripts) ==
    LET out == COutPoint(p.txid, p.vout)
    IN  IF ~p.isObject THEN PrevState(ErrExpectedObject, coins, scripts)
        ELSE IF p.vout < 0 THEN PrevState(ErrVoutNegative, coins, scripts)
        ELSE IF CoinMismatch(coins, out, p.scriptPubKey)
        THEN PrevState(ErrScriptMismatch, coins, scripts)
        ELSE IF p.amount.has /\ ~AmountFromValue(p.amount.val).ok
        THEN PrevState(ErrAmount, coins, scripts)
        ELSE PrevState("", PutCoin(coins, out, NewCoin(p)), scripts)

\* lines 386-500: one turn of the loop of ParsePrevouts.
ParsePrevout(p, keystore, coins, scripts) ==
    LET r == RecordCoin(p, coins, scripts)
    IN  IF r.err # "" THEN r ELSE RegisterScripts(p, keystore, r.coins, r.scripts)

\* ParsePrevouts is called with a coin map, with or without a key provider.
PP_Start ==
    /\ pp.pc = "idle"
    /\ \E keystore \in BOOLEAN, coins \in CallerCoins :
         pp' = [NoPrevouts EXCEPT !.pc = "loop", !.keystore = keystore,
                                  !.coins = coins, !.pre.coins = coins]
    /\ UNCHANGED <<tip, mtx, call, last, found, ct, vt, sg>>

\* lines 385-501: the next record is processed; a rejected record throws.
PP_Record ==
    /\ pp.pc = "loop"
    /\ pp.n < MaxRecords
    /\ \E p \in PrevOuts :
         LET r == ParsePrevout(p, pp.keystore, pp.coins, pp.scripts)
         IN  pp' = [pp EXCEPT !.pc = IF r.err # "" THEN "thrown" ELSE "loop",
                              !.n = @ + 1, !.p = p, !.err = r.err,
                              !.coins = r.coins, !.scripts = r.scripts,
                              !.pre = [coins |-> pp.coins, scripts |-> pp.scripts]]
    /\ UNCHANGED <<tip, mtx, call, last, found, ct, vt, sg>>

\* line 503: the array is exhausted.
PP_Return ==
    /\ pp.pc = "loop"
    /\ pp' = [pp EXCEPT !.pc = "returned"]
    /\ UNCHANGED <<tip, mtx, call, last, found, ct, vt, sg>>

NextPrevouts ==
    \/ PP_Start
    \/ PP_Record
    \/ PP_Return

SpecPrevouts == Init /\ [][NextPrevouts]_vars

\* =================================================================== claims
\* What the last finished CreatePegInInput call was given.
LastIdx == last.req.input_idx + 1
LastTx == last.req.txData.obj
LastProof == last.req.txOutProofData

\* The claim scripts of the last call that pay to some output of the parent
\* transaction under some configuration of the list the call read.
LastMatching ==
    {c \in last.req.claim_scripts :
       \E k \in 1..Len(last.matchFeds), n \in 1..Len(LastTx.vout) :
         LastTx.vout[n].scriptPubKey = MainchainScript(last.matchFeds[k], c)}

\* The witness slot of the last call's input holds a peg-in witness.
LastAttached ==
    /\ Len(mtx.vtxinwit) >= LastIdx
    /\ mtx.vtxinwit[LastIdx].pegin # <<>>

\* C1: after a CreatePegInInput call, a peg-in witness sits in the witness
\* slot of the input only if the call succeeded and that witness passes
\* IsValidPeginWitness (no depth check) against the configuration list the call
\* matched the claim with and the outpoint installed in the input; a failed
\* call leaves the witnesses as they were.  On success the input holds the
\* outpoint (parent txid, matched output), an empty scriptSig, the final
\* sequence number and m_is_pegin.
Inv_C1_WitnessVerified ==
    last.op = "pegin" =>
      /\ last.err # "" => mtx.vtxinwit = last.pre.vtxinwit /\ ~LastAttached
      /\ LastAttached => last.err = ""
      /\ last.err = "" =>
           /\ LastAttached
           /\ Len(mtx.vin) >= LastIdx
           /\ LET txin == mtx.vin[LastIdx]
                  w == mtx.vtxinwit[LastIdx].pegin[1]
              IN  /\ IsValidPeginWitness(w, last.matchFeds, txin.prevout, FALSE) = ""
                  /\ last.verifyFeds = last.matchFeds
                  /\ w.tx = LastTx
                  /\ w.claim_script \in last.req.claim_scripts
                  /\ txin.prevout.hash = Hash(LastTx)
                  /\ txin.prevout.n =
                       GetPeginTxnOutputIndex(LastTx, w.claim_script, last.matchFeds)
                  /\ txin.prevout.n < Len(LastTx.vout)
                  /\ txin.scriptSig = EmptyScript
                  /\ txin.nSequence = SEQUENCE_FINAL
                  /\ txin.m_is_pegin

\* C1 witness: a call that grew the transaction and attached a witness, and
\* a tip that moved while the call ran.
Wit_C1_Attached ==
    /\ last.op = "pegin" /\ last.err = "" /\ LastAttached
    /\ Len(last.pre.vin) < LastIdx
    /\ GetValidFedpegScripts(tip) # last.matchFeds

\* C2 as claimed: a truncated proof buffer, or one with bytes left over, always
\* fails with the invalid-proof error and leaves the transaction untouched.
Cex_C2_AlwaysInvalidProof ==
    (last.op = "pegin" /\ (LastProof.cut \/ LastProof.extra # 0)) =>
      /\ last.err = ErrInvalidProof
      /\ mtx.vin = last.pre.vin /\ mtx.vtxinwit = last.pre.vtxinwit

\* C2 amended: such a call always fails and leaves vin and vtxinwit as they
\* were; the error is that of the first failing check: the input-reuse error,
\* the malformed-bitcoinTx error, the malformed-txoutproof error for a
\* truncated proof, and "Invalid tx out proof" for a proof with trailing bytes.
Inv_C2_BadProofBuffer ==
    (last.op = "pegin" /\ (LastProof.cut \/ LastProof.extra # 0)) =>
      /\ mtx.vin = last.pre.vin /\ mtx.vtxinwit = last.pre.vtxinwit
      /\ last.err =
           IF \/ /\ Len(last.pre.vin) >= LastIdx
                 /\ last.pre.vin[LastIdx].scriptSig # EmptyScript
              \/ /\ Len(last.pre.vtxinwit) >= LastIdx
                 /\ ~IsNull(last.pre.vtxinwit[LastIdx])
           THEN ErrReuse
           ELSE IF last.req.txData.cut THEN ErrTxMalformed
           ELSE IF LastProof.cut THEN ErrProofMalformed
           ELSE ErrInvalidProof

\* C2 witness: a proof with trailing bytes rejected as invalid on a
\* transaction that has an input.
Wit_C2_Trailing ==
    /\ last.op = "pegin" /\ LastProof.extra # 0
    /\ last.err = ErrInvalidProof
    /\ Len(last.pre.vin) > 0

\* C8: GetPeginTxnOutputIndex returns the lowest output index matching the
\* first configuration, in list order, that matches any output, and
\* vout.size() exactly when no configuration matches any output.
Inv_C8_FirstConfigFirstOutput ==
    found.done =>
      LET vout == found.txn.vout
          hits(k) == {n \in 0..(Len(vout) - 1) :
                        vout[n + 1].scriptPubKey =
                           MainchainScript(found.fedpegscripts[k], found.claim)}
          ks == {k \in 1..Len(found.fedpegscripts) : hits(k) # {}}
      IN  IF ks = {}
          THEN found.nOut = Len(vout)
          ELSE LET k0 == CHOOSE k \in ks : \A j \in ks : k <= j
               IN  /\ found.nOut \in hits(k0)
                   /\ \A n \in hits(k0) : found.nOut <= n
                   /\ found.nOut < Len(vout)

\* C8 witness: the first configuration matches output 1 while the second
\* configuration matches output 0, and 1 is returned.
Wit_C8_LaterOutputOfFirstConfig ==
    /\ found.done
    /\ Len(found.fedpegscripts) = 2
    /\ Len(found.txn.vout) = 2
    /\ found.nOut = 1
    /\ found.txn.vout[1].scriptPubKey = MainchainScript(found.fedpegscripts[2], found.claim)

\* The errors thrown before the claim scripts are matched.
EarlyErrors == {ErrReuse, ErrTxMalformed, ErrProofMalformed, ErrInvalidProof, ErrNotOnlyTx}

\* C9: when exactly one claim script of the set matches an output of the
\* parent transaction, it is the witness script selected; when none matches
\* the error is the claim-script message for one script and the generic
\* message for more than one.
Inv_C9_ClaimSelection ==
    (last.op = "pegin" /\ last.err \notin EarlyErrors) =>
      /\ Cardinality(LastMatching) = 1 =>
           /\ last.prep.witness_script \in LastMatching
           /\ last.err \notin {ErrClaimMismatch, ErrNoOutput}
      /\ (LastMatching = {} /\ Cardinality(last.req.claim_scripts) = 1) =>
           last.err = ErrClaimMismatch
      /\ (LastMatching = {} /\ Cardinality(last.req.claim_scripts) > 1) =>
           last.err = ErrNoOutput

\* C9 witness: three claim scripts, only the second matches, and the call
\* succeeds with it.
Wit_C9_SecondOfThree ==
    /\ last.op = "pegin" /\ last.err = ""
    /\ last.req.claim_scripts = {1, 2, 3}
    /\ LastMatching = {2}
    /\ last.prep.witness_script = 2

\* C10: a call for an input that has a non-empty scriptSig, or whose witness
\* slot is not null, fails with the reuse error and leaves the transaction as
\* it was, and so does the same call made again.
Inv_C10_ReuseRejected ==
    (/\ last.op = "pegin"
     /\ \/ /\ Len(last.pre.vin) >= LastIdx
           /\ last.pre.vin[LastIdx].scriptSig # EmptyScript
        \/ /\ Len(last.pre.vtxinwit) >= LastIdx
           /\ ~IsNull(last.pre.vtxinwit[LastIdx]))
    => /\ last.err = ErrReuse
       /\ mtx = last.pre
       /\ \A t \in 0..MaxTip :
            CreatePegInInput(mtx, last.req.input_idx, last.req.claim_scripts,
                             last.req.txData, last.req.txOutProofData, t)
              = [err |-> ErrReuse, mtx |-> last.pre]

\* C10 witness: a sound request rejected because the witness slot of an
\* unsigned input is already set.
Wit_C10_WitnessSlotSet ==
    /\ last.op = "pegin" /\ last.err = ErrReuse
    /\ last.pre.vin[LastIdx].scriptSig = EmptyScript
    /\ ~IsNull(last.pre.vtxinwit[LastIdx])
    /\ last.req.txData = Buf(GoodTx)
    /\ last.req.txOutProofData = Buf(GoodProof(GoodTx))


\* Whether input object o asks for a peg-in: all three fields are present.
AllPeginFields(o) == o.pegin_bitcoin_tx /\ o.pegin_txout_proof /\ o.pegin_claim_script
AnyPeginField(o) == o.pegin_bitcoin_tx \/ o.pegin_txout_proof \/ o.pegin_claim_script

\* The sequence number the claim C4 expects for input object o.
ClaimedSequence(o) ==
    IF o.sequence.has THEN o.sequence.val
    ELSE IF ct.rbf THEN SEQUENCE_FINAL - 2
    ELSE IF ct.rawTx.nLockTime # 0 THEN SEQUENCE_FINAL - 1
    ELSE SEQUENCE_FINAL

\* C3 as claimed: within one ConstructTransaction call every peg-in input is
\* matched against the same federation configuration list.
Cex_C3_OneListPerConstruct ==
    \A j, k \in DOMAIN ct.fedReads : ct.fedReads[j] = ct.fedReads[k]

\* C3 amended: each CreatePegInInput call reads the list once and verifies
\* the witness against the list it matched the claim with, and one
\* ValidateTransactionPeginInputs call verifies every peg-in input against the
\* list it read when it started, whatever the chain tip does meanwhile.
\* ConstructTransaction itself reads the list anew for each peg-in input.
Inv_C3_OneListPerPeginCall ==
    /\ Len(ct.verifyReads) <= Len(ct.fedReads)
    /\ \A k \in DOMAIN ct.verifyReads : ct.verifyReads[k] = ct.fedReads[k]
    /\ \A k \in DOMAIN vt.reads : vt.reads[k] = vt.fedpegscripts

\* C3 witness: two peg-in inputs built and then validated while the tip moved
\* between the two inputs both times.
Wit_C3_TipMovedBetweenInputs ==
    /\ ct.pc = "returned" /\ vt.pc = "done"
    /\ Len(ct.verifyReads) = 2 /\ ct.verifyReads[1] # ct.verifyReads[2]
    /\ Len(vt.reads) = 2
    /\ vt.fedpegscripts # GetValidFedpegScripts(tip)

\* C4 as claimed: every input of the returned transaction, peg-in or not, has
\* the supplied sequence number, or the default when none is supplied.
Cex_C4_SequenceOfEveryInput ==
    ct.pc = "returned" =>
      \A k \in DOMAIN ct.rawTx.vin :
        ct.rawTx.vin[k].nSequence = ClaimedSequence(ct.inputs[k])

\* C4 amended: every input of the returned transaction that is not a peg-in
\* has the supplied sequence number, or the default when none is supplied; a
\* peg-in input has sequence SEQUENCE_FINAL whatever was supplied; a call with
\* a sequence number outside 0..SEQUENCE_FINAL fails.
Inv_C4_SequenceOfInputs ==
    /\ ct.pc = "returned" =>
         /\ Len(ct.rawTx.vin) = Len(ct.inputs)
         /\ \A k \in DOMAIN ct.rawTx.vin :
              ct.rawTx.vin[k].nSequence =
                 IF ct.rawTx.vin[k].m_is_pegin THEN SEQUENCE_FINAL
                 ELSE ClaimedSequence(ct.inputs[k])
    /\ \A k \in DOMAIN ct.inputs :
         (/\ ct.inputs[k].sequence.has
          /\ \/ ct.inputs[k].sequence.val < 0
             \/ ct.inputs[k].sequence.val > SEQUENCE_FINAL)
         => ct.pc = "failed"

\* C4 witness: a returned transaction with a lock time, an input with the
\* default sequence and a peg-in input that asked for sequence 0.
Wit_C4_DefaultAndPegin ==
    /\ ct.pc = "returned" /\ ~ct.rbf /\ ct.rawTx.nLockTime # 0
    /\ Len(ct.rawTx.vin) = 2
    /\ ~ct.inputs[1].sequence.has /\ ~ct.rawTx.vin[1].m_is_pegin
    /\ ct.rawTx.vin[1].nSequence = SEQUENCE_FINAL - 1
    /\ ct.inputs[2].sequence = Num(0) /\ ct.rawTx.vin[2].m_is_pegin

\* C5: a transaction returned with rbf and at least one input has an input
\* whose sequence number is at most SEQUENCE_FINAL - 2; the call is rejected
\* with the contradiction error exactly when rbf is set, there is an input and
\* no input of the built transaction has such a sequence number.
Inv_C5_RbfSignalled ==
    LET signals == \E k \in DOMAIN ct.rawTx.vin :
                      ct.rawTx.vin[k].nSequence <= SEQUENCE_FINAL - 2
    IN  /\ (ct.pc = "returned" /\ ct.rbf /\ Len(ct.rawTx.vin) > 0) => signals
        /\ ct.err = ErrRbf => (ct.pc = "failed" /\ ct.rbf /\ Len(ct.rawTx.vin) > 0 /\ ~signals)

\* C5 witness: a call with rbf rejected because its only input asked for
\* sequence SEQUENCE_FINAL - 1.
Wit_C5_Rejected ==
    /\ ct.pc = "failed" /\ ct.err = ErrRbf
    /\ Len(ct.inputs) = 1
    /\ ct.inputs[1].sequence = Num(SEQUENCE_FINAL - 1)

\* C6: an input of a returned transaction is a peg-in exactly when its three
\* peg-in fields are present and allow_peg_in is set; a call with an input
\* that has some peg-in field without that condition fails; without
\* allow_peg_in no input is ever marked peg-in; peg-in construction runs only
\* for such an input, and a returned peg-in input carries a witness whose
\* parent header passed the header check.
Inv_C6_PeginDispatch ==
    /\ ct.pc = "returned" =>
         \A k \in DOMAIN ct.rawTx.vin :
           /\ ct.rawTx.vin[k].m_is_pegin
                <=> (AllPeginFields(ct.inputs[k]) /\ ct.allow_peg_in)
           /\ ct.rawTx.vin[k].m_is_pegin =>
                /\ Len(ct.rawTx.vtxinwit) >= k
                /\ ct.rawTx.vtxinwit[k].pegin # <<>>
                /\ ct.rawTx.vtxinwit[k].pegin[1].proof.header.work
                /\ ct.rawTx.vtxinwit[k].pegin[1].proof = ct.inputs[k].payload.proof.obj
                /\ ct.inputs[k].payload.proof.extra = 0
                /\ ct.inputs[k].payload.hex
    /\ \A k \in DOMAIN ct.inputs :
         (AnyPeginField(ct.inputs[k]) /\ ~(AllPeginFields(ct.inputs[k]) /\ ct.allow_peg_in))
         => ct.pc = "failed"
    /\ ~ct.allow_peg_in =>
         /\ \A k \in DOMAIN ct.rawTx.vin : ~ct.rawTx.vin[k].m_is_pegin
         /\ ct.fedReads = <<>>
    /\ ct.pc = "pegin" =>
         AllPeginFields(ct.inputs[Len(ct.inputs)]) /\ ct.allow_peg_in
    /\ ct.err \in {ErrConstructed, ErrInvalidProof, ErrNotHex} => ct.pc = "failed"

\* C6 witness: a returned transaction with a peg-in input and a plain one.
Wit_C6_MixedInputs ==
    /\ ct.pc = "returned" /\ ct.allow_peg_in
    /\ Len(ct.rawTx.vin) = 2
    /\ ct.rawTx.vin[1].m_is_pegin /\ ~ct.rawTx.vin[2].m_is_pegin

\* The "fee" entries of the outputs given to the call.
FeeKeys == {k \in DOMAIN ct.outputs : ct.outputs[k].name = "fee"}
EmptyScriptOutputs == {k \in DOMAIN ct.rawTx.vout : ct.rawTx.vout[k].scriptPubKey = EmptyScript}

Cex_C13_FailureFrame ==
    (last.op = "pegin" /\ last.err # "") =>
      /\ mtx.vin = last.pre.vin
      /\ mtx.vtxinwit = last.pre.vtxinwit

\* C13 amended: a call that fails in one of the checks of lines 48-108 leaves
\* vin and vtxinwit as they were; a call that fails in the self-verification
\* of line 122 leaves vtxinwit as it was, and vin grown to hold the input and
\* with the input replaced by the peg-in outpoint (empty scriptSig, final
\* sequence number, not marked as a peg-in).
Inv_C13_FailureFrameBeforeInstall ==
    (last.op = "pegin" /\ last.err # "") =>
      /\ mtx.vtxinwit = last.pre.vtxinwit
      /\ last.err # ErrConstructed => mtx.vin = last.pre.vin
      /\ last.err = ErrConstructed =>
           mtx.vin = [Resize(last.pre.vin, LastIdx, DefaultTxIn) EXCEPT ![LastIdx] =
                        CTxIn(COutPoint(Hash(LastTx), last.prep.nOut),
                              EmptyScript, SEQUENCE_FINAL)]

\* C13 witness: a call that failed its self-verification on an empty transaction:
\* the transaction now has one input and no input witness.
Wit_C13_GrownWithoutWitness ==
    /\ last.op = "pegin" /\ last.err = ErrConstructed
    /\ last.pre = EmptyTx
    /\ Len(mtx.vin) = 1 /\ Len(mtx.vtxinwit) = 0

\* Input k (from 0) of the transaction being signed is a peg-in whose witness
\* is present and passes IsValidPeginWitness, with or without the depth
\* check, against the list the call read.
SignPasses(k, check_depth) ==
    /\ Len(sg.mtx.vtxinwit) > k
    /\ sg.mtx.vtxinwit[k + 1].pegin # <<>>
    /\ IsValidPeginWitness(sg.mtx.vtxinwit[k + 1].pegin[1], sg.fedpegscripts,
                           sg.mtx.vin[k + 1].prevout, check_depth) = ""
SignImmature(k) ==
    sg.mtx.vin[k + 1].m_is_pegin /\ SignPasses(k, FALSE) /\ ~SignPasses(k, TRUE)

\* C12: in SignTransaction, a peg-in input whose witness passes verification
\* without the depth check and fails it with the depth check gets no entry in
\* the error map from the peg-in validation and sets the immaturity flag; the
\* transaction is then passed to the signer and a result that is returned
\* carries the warning.  A peg-in input whose witness is missing or fails
\* verification without the depth check gets "Peg-in input has invalid proof."
\* and does not set the flag: the flag is set only by immature inputs.
Inv_C12_ImmatureIsWarning ==
    /\ \A k \in 0..(sg.i - 1) :
         sg.mtx.vin[k + 1].m_is_pegin =>
           /\ SignImmature(k) =>
                /\ \A e \in sg.pegin_errors : e[1] # k
                /\ sg.immature_pegin
                /\ sg.pc = "returned" => sg.warning
           /\ ~SignPasses(k, FALSE) => <<k, ErrPeginProof>> \in sg.pegin_errors
           /\ SignPasses(k, TRUE) => \A e \in sg.pegin_errors : e[1] # k
    /\ sg.immature_pegin <=> \E k \in 0..(sg.i - 1) : SignImmature(k)
    /\ sg.pc \in {"signed", "returned", "thrown"} =>
         sg.signed /\ sg.i = Len(sg.mtx.vin)
    /\ sg.pc = "returned" => sg.warning = sg.immature_pegin

\* C12 witness: a returned result for a transaction with an immature peg-in
\* input and a peg-in input that is not valid under the list read: the
\* warning, one error from the validation, and a complete signature.
Wit_C12_WarningAndError ==
    /\ sg.pc = "returned" /\ sg.warning /\ sg.complete
    /\ Len(sg.mtx.vin) >= 2
    /\ SignImmature(0)
    /\ sg.mtx.vin[2].m_is_pegin /\ ~SignPasses(1, FALSE)
    /\ sg.pegin_errors = {<<1, ErrPeginProof>>}

\* The last record ParsePrevouts processed names an outpoint.
PrevNamed == pp.n > 0 /\ pp.p.isObject /\ pp.p.vout >= 0
PrevOutPoint == COutPoint(pp.p.txid, pp.p.vout)

\* The map held an unspent coin for that outpoint before the record.
PrevRecorded ==
    /\ PrevNamed
    /\ PrevOutPoint \in DOMAIN pp.pre.coins
    /\ ~pp.pre.coins[PrevOutPoint].spent

\* The amount the record gives a coin: the explicit amount if given, else
\* the amount commitment if given, else MAX_MONEY.
PrevAmount ==
    IF pp.p.amount.has THEN [commitment |-> FALSE, v |-> pp.p.amount.val]
    ELSE IF pp.p.amountcommitment.has
         THEN [commitment |-> TRUE, v |-> pp.p.amountcommitment.bytes]
    ELSE [commitment |-> FALSE, v |-> MAX_MONEY]

\* The coin map after the record holds the record's coin for its outpoint and
\* is otherwise as before.
PrevCoinWritten ==
    /\ DOMAIN pp.coins = DOMAIN pp.pre.coins \cup {PrevOutPoint}
    /\ \A o \in DOMAIN pp.pre.coins \ {PrevOutPoint} : pp.coins[o] = pp.pre.coins[o]
    /\ pp.coins[PrevOutPoint] =
         [scriptPubKey |-> pp.p.scriptPubKey, nValue |-> PrevAmount,
          nHeight |-> 1, spent |-> FALSE]

\* The script the record has registered: witnessScript when given, else
\* redeemScript.
PrevScript ==
    IF pp.p.witnessScript.has THEN pp.p.witnessScript.bytes ELSE pp.p.redeemScript.bytes

\* The scriptPubKey of no unspent coin has changed in the last turn.
PrevScriptsKept ==
    \A o \in DOMAIN pp.pre.coins :
       ~pp.pre.coins[o].spent =>
          /\ o \in DOMAIN pp.coins
          /\ ~pp.coins[o].spent
          /\ pp.coins[o].scriptPubKey = pp.pre.coins[o].scriptPubKey

\* C11 as claimed: the scriptPubKey of an unspent coin never changes; a
\* record for its outpoint with another script is rejected with the
\* script-mismatch error, and a record with the same script is accepted and
\* replaces the coin's amount.
Cex_C11_SameScriptAccepted ==
    /\ PrevScriptsKept
    /\ PrevRecorded =>
         IF pp.pre.coins[PrevOutPoint].scriptPubKey # pp.p.scriptPubKey
         THEN pp.err = ErrScriptMismatch
         ELSE pp.err = "" /\ pp.coins[PrevOutPoint].nValue = PrevAmount

\* C11 amended: the scriptPubKey of an unspent coin never changes; a record
\* for its outpoint with another script is rejected with the script-mismatch
\* error and changes nothing; a record with the same script passes that check
\* and, unless its amount is out of range (the record is then rejected and the
\* coin kept), replaces the coin's amount, also when the record is then
\* rejected for its redeemScript or witnessScript.
Inv_C11_ScriptNeverChanges ==
    /\ PrevScriptsKept
    /\ PrevRecorded =>
         IF pp.pre.coins[PrevOutPoint].scriptPubKey # pp.p.scriptPubKey
         THEN /\ pp.err = ErrScriptMismatch
              /\ pp.coins = pp.pre.coins /\ pp.scripts = pp.pre.scripts
         ELSE IF pp.p.amount.has /\ pp.p.amount.val < 0
         THEN pp.err = ErrAmount /\ pp.coins = pp.pre.coins
         ELSE /\ pp.err \in {"", ErrMissingScripts, ErrNotCorresponding, ErrNoMatch}
              /\ PrevCoinWritten
    /\ pp.err = ErrScriptMismatch =>
         PrevRecorded /\ pp.pre.coins[PrevOutPoint].scriptPubKey # pp.p.scriptPubKey

\* C11 witness: the second record of a call names the outpoint of the first
\* with the same script and another amount, and is accepted.
Wit_C11_AmountReplaced ==
    /\ pp.n = 2 /\ pp.err = "" /\ PrevRecorded
    /\ pp.pre.coins[PrevOutPoint].nHeight = 1
    /\ pp.pre.coins[PrevOutPoint].scriptPubKey = pp.p.scriptPubKey
    /\ pp.pre.coins[PrevOutPoint].nValue.commitment
    /\ pp.coins[PrevOutPoint].nValue = [commitment |-> FALSE, v |-> MAX_MONEY]

\* C14 as claimed: a record rejected for its redeemScript or witnessScript
\* (missing, not corresponding, not matching the scriptPubKey) has left the
\* coin map and the key provider as they were.
Cex_C14_RejectedRecordNoEffect ==
    pp.err \in {ErrMissingScripts, ErrNotCorresponding, ErrNoMatch} =>
      pp.coins = pp.pre.coins /\ pp.scripts = pp.pre.scripts

\* C14 amended: a record rejected for its redeemScript or witnessScript has
\* had its coin written to the coin map; when the scripts are missing nothing
\* is registered with the key provider, and otherwise the script and the
\* script paying to its witness hash are registered.  A record rejected
\* before that (not an object, negative output index, script mismatch, amount
\* out of range) has left both as they were.
Inv_C14_RejectedRecordEffects ==
    /\ pp.err \in {ErrMissingScripts, ErrNotCorresponding, ErrNoMatch} =>
         /\ PrevNamed /\ pp.keystore
         /\ PrevCoinWritten
         /\ pp.scripts = IF pp.err = ErrMissingScripts THEN pp.pre.scripts
                         ELSE pp.pre.scripts
                                \cup {PrevScript, <<"p2wsh">> \o PrevScript}
    /\ pp.err \in {ErrExpectedObject, ErrVoutNegative, ErrScriptMismatch, ErrAmount} =>
         pp.coins = pp.pre.coins /\ pp.scripts = pp.pre.scripts

\* C14 witness: a record rejected because its script does not match the
\* scriptPubKey, on an outpoint the map had no coin for: the map has the coin
\* and the key provider the script.
Wit_C14_CoinAndScriptLeft ==
    /\ pp.err = ErrNoMatch
    /\ PrevOutPoint \notin DOMAIN pp.pre.coins
    /\ PrevOutPoint \in DOMAIN pp.coins
    /\ PrevScript \in pp.scripts /\ PrevScript \notin pp.pre.scripts

====
